---------------------------- MODULE Spec2Model ----------------------------
(***************************************************************************)
(* A model of chess_terminal: the game state machine (ChessGame in         *)
(* src/game/mod.rs), the engine bridge (ChessEngine in src/engine/mod.rs)  *)
(* and the interaction loop with its own copy of both (App and run_app in  *)
(* src/main.rs).  The rules of chess come from the `chess` crate; the      *)
(* operators of the first section stand for the calls the program makes    *)
(* into it (MoveGen::new_legal, Game::make_move, Game::result, ...).       *)
(***************************************************************************)
EXTENDS Integers, Sequences, FiniteSets, TLC

VARIABLES
    cg,        \* the ChessGame of the library
    call,      \* the last call made on it: operation, argument, result
    overflow_checks, \* the build checks arithmetic overflow (debug) or not (release)
    halted,    \* a call panicked: the thread that owns the game is gone
    process,   \* ChessEngine.process: the child held (its place in procs), 0 for None
    procs,     \* every engine process spawned so far, with its pipes and listener
    chan,      \* the move notification channel: sent and not yet received
    bridge,    \* the ChessEngine is "live" or "dropped"
    received,  \* every value try_receive_move has returned, in order
    bcall,     \* the last call made on the bridge and its result
    app,       \* the App of the binary: its own game, selection, cache, flag
    loop       \* where run_app stands, and the file key it holds

gameVars == <<cg, call, overflow_checks, halted>>

bridgeVars == <<process, procs, chan, bridge, received, bcall>>

appVars == <<app, loop>>

vars == <<cg, call, overflow_checks, halted,
          process, procs, chan, bridge, received, bcall, app, loop>>

(***************************************************************************)
(* Rules engine (crate `chess`), as the program uses it.                   *)
(* A square is its index rank*8+file: a1 = 0, h1 = 7, a8 = 56, h8 = 63.    *)
(***************************************************************************)
Squares == 0..63

FileOf(s) == s % 8

RankOf(s) == s \div 8

\* Square::make_square(Rank::from_index(r), File::from_index(f))
make_square(r, f) == (r % 8) * 8 + (f % 8)

Abs(x) == IF x < 0 THEN -x ELSE x

Sgn(x) == IF x < 0 THEN -1 ELSE IF x > 0 THEN 1 ELSE 0

Max2(a, b) == IF a >= b THEN a ELSE b

\* A piece is its letter in FEN: upper case for White, lower case for Black;
\* "." is an empty square.
Empty == "."

WhiteLetter ==
    [Pawn |-> "P", Knight |-> "N", Bishop |-> "B", Rook |-> "R", Queen |-> "Q",
     King |-> "K"]

BlackLetter ==
    [Pawn |-> "p", Knight |-> "n", Bishop |-> "b", Rook |-> "r", Queen |-> "q",
     King |-> "k"]

Pc(c, k) == IF c = "White" THEN WhiteLetter[k] ELSE BlackLetter[k]

ColorOf(p) ==
    IF p = "." THEN "None"
    ELSE IF p \in {"P", "N", "B", "R", "Q", "K"} THEN "White" ELSE "Black"

KindOf(p) ==
    CASE p \in {"P", "p"} -> "Pawn"
      [] p \in {"N", "n"} -> "Knight"
      [] p \in {"B", "b"} -> "Bishop"
      [] p \in {"R", "r"} -> "Rook"
      [] p \in {"Q", "q"} -> "Queen"
      [] p \in {"K", "k"} -> "King"
      [] OTHER -> "None"

Other(c) == IF c = "White" THEN "Black" ELSE "White"

\* The back rank of Board::default(), files a..h.
BackRank == <<"Rook", "Knight", "Bishop", "Queen", "King", "Bishop", "Knight", "Rook">>

\* A board is the sequence of its 64 squares' pieces, a1 first.
At(b, s) == b[s + 1]

\* Board::default(): the position Game::new() starts from.
StartBoard ==
    [i \in 1..64 |->
        CASE RankOf(i - 1) = 0 -> Pc("White", BackRank[FileOf(i - 1) + 1])
          [] RankOf(i - 1) = 1 -> Pc("White", "Pawn")
          [] RankOf(i - 1) = 6 -> Pc("Black", "Pawn")
          [] RankOf(i - 1) = 7 -> Pc("Black", BackRank[FileOf(i - 1) + 1])
          [] OTHER -> Empty]

NoSquare == 64

\* A position: the board, the side to move, the castle rights still held,
\* and the square a pawn may capture onto en passant (NoSquare if none).
StartPosition ==
    [board |-> StartBoard, stm |-> "White",
     castle |-> {"WK", "WQ", "BK", "BQ"}, ep |-> NoSquare]

Range(q) == {q[i] : i \in 1..Len(q)}

\* A move, as ChessMove: source, destination, promotion piece or "None".
Mv(s, d, p) == [src |-> s, dst |-> d, promo |-> p]

\* Every square strictly between s and t (which lie on one line) is empty.
ClearBetween(occ, s, t) ==
    LET df == Sgn(FileOf(t) - FileOf(s))
        dr == Sgn(RankOf(t) - RankOf(s))
        n == Max2(Abs(FileOf(t) - FileOf(s)), Abs(RankOf(t) - RankOf(s)))
    IN \A k \in 1..(n - 1) : At(occ, s + k * (dr * 8 + df)) = Empty

\* A piece p on s attacks square t (pawns: the capture squares only) on a
\* board whose occupied squares are those of occ.
AttacksAs(p, occ, s, t) ==
    LET df == Abs(FileOf(t) - FileOf(s))
        dr == Abs(RankOf(t) - RankOf(s))
    IN /\ s # t
       /\ CASE KindOf(p) = "Pawn" ->
                   df = 1 /\ RankOf(t) - RankOf(s) = (IF ColorOf(p) = "White" THEN 1 ELSE -1)
            [] KindOf(p) = "Knight" -> (df = 1 /\ dr = 2) \/ (df = 2 /\ dr = 1)
            [] KindOf(p) = "King" -> df <= 1 /\ dr <= 1
            [] KindOf(p) = "Rook" -> (df = 0 \/ dr = 0) /\ ClearBetween(occ, s, t)
            [] KindOf(p) = "Bishop" -> df = dr /\ ClearBetween(occ, s, t)
            [] KindOf(p) = "Queen" ->
                   (df = 0 \/ dr = 0 \/ df = dr) /\ ClearBetween(occ, s, t)
            [] OTHER -> FALSE

\* The piece on s attacks square t.
Attacks(b, s, t) == AttacksAs(At(b, s), b, s, t)

\* Some piece of colour c attacks square t.
Attacked(b, t, c) == \E s \in Squares : ColorOf(At(b, s)) = c /\ Attacks(b, s, t)

KingSquare(b, c) == CHOOSE s \in Squares : At(b, s) = Pc(c, "King")

InCheck(b, c) == Attacked(b, KingSquare(b, c), Other(c))

HomeRank(c) == IF c = "White" THEN 0 ELSE 7

\* The castle right a king move of two files uses.
CastleRight(c, d) ==
    IF c = "White" THEN (IF FileOf(d) = 6 THEN "WK" ELSE "WQ")
    ELSE (IF FileOf(d) = 6 THEN "BK" ELSE "BQ")

\* The king of colour c may castle from s to d: the right is held, the squares
\* between king and rook are empty, and the king neither stands on, crosses
\* nor lands on an attacked square.
CanCastle(pos, s, d) ==
    LET b == pos.board
        c == pos.stm
        h == HomeRank(c)
        kingside == FileOf(d) = 6
        rookSq == IF kingside THEN h * 8 + 7 ELSE h * 8
        mid == IF kingside THEN s + 1 ELSE s - 1
    IN /\ s = h * 8 + 4
       /\ d \in {h * 8 + 6, h * 8 + 2}
       /\ CastleRight(c, d) \in pos.castle
       /\ At(b, rookSq) = Pc(c, "Rook")
       /\ ClearBetween(b, s, rookSq)
       /\ ~Attacked(b, s, Other(c))
       /\ ~Attacked(b, mid, Other(c))
       /\ ~Attacked(b, d, Other(c))

\* The piece of the side to move on s may move to d, own king safety aside.
PseudoLegal(pos, s, d) ==
    LET b == pos.board
        p == At(b, s)
        c == pos.stm
        fwd == IF c = "White" THEN 1 ELSE -1
        startRank == IF c = "White" THEN 1 ELSE 6
    IN /\ ColorOf(p) = c
       /\ ColorOf(At(b, d)) # c
       /\ IF KindOf(p) = "Pawn"
          THEN \/ /\ d = s + 8 * fwd
                  /\ At(b, d) = Empty
               \/ /\ d = s + 16 * fwd
                  /\ RankOf(s) = startRank
                  /\ At(b, s + 8 * fwd) = Empty
                  /\ At(b, d) = Empty
               \/ /\ Attacks(b, s, d)
                  /\ (ColorOf(At(b, d)) = Other(c) \/ d = pos.ep)
          ELSE \/ Attacks(b, s, d)
               \/ KindOf(p) = "King" /\ CanCastle(pos, s, d)

IsEnPassant(pos, m) ==
    /\ KindOf(At(pos.board, m.src)) = "Pawn"
    /\ m.dst = pos.ep
    /\ FileOf(m.src) # FileOf(m.dst)

IsCastle(pos, m) ==
    KindOf(At(pos.board, m.src)) = "King" /\ Abs(FileOf(m.dst) - FileOf(m.src)) = 2

\* The board after the move: the piece (or the piece it promotes to) on the
\* destination, the pawn taken en passant removed, the rook of a castle moved.
BoardAfter(pos, m) ==
    LET b == pos.board
        p == At(b, m.src)
        placed == IF m.promo = "None" THEN p ELSE Pc(ColorOf(p), m.promo)
        epVictim == IF IsEnPassant(pos, m)
                    THEN make_square(RankOf(m.src), FileOf(m.dst))
                    ELSE NoSquare
        castling == IsCastle(pos, m)
        rookFrom == IF FileOf(m.dst) = 6 THEN m.src + 3 ELSE m.src - 4
        rookTo == IF FileOf(m.dst) = 6 THEN m.src + 1 ELSE m.src - 1
    IN [i \in 1..64 |->
           IF i - 1 = m.dst THEN placed
           ELSE IF i - 1 = m.src \/ i - 1 = epVictim THEN Empty
           ELSE IF castling /\ i - 1 = rookFrom THEN Empty
           ELSE IF castling /\ i - 1 = rookTo THEN At(b, rookFrom)
           ELSE b[i]]

\* The rights a move removes: those of a king or rook that leaves its square,
\* and of a rook captured on its square.
RightsLost(m) ==
    (IF m.src = 4 THEN {"WK", "WQ"} ELSE {})
    \cup (IF m.src = 60 THEN {"BK", "BQ"} ELSE {})
    \cup (IF 0 \in {m.src, m.dst} THEN {"WQ"} ELSE {})
    \cup (IF 7 \in {m.src, m.dst} THEN {"WK"} ELSE {})
    \cup (IF 56 \in {m.src, m.dst} THEN {"BQ"} ELSE {})
    \cup (IF 63 \in {m.src, m.dst} THEN {"BK"} ELSE {})

\* Board::make_move_new: the position after the move.  The en passant square
\* is kept only when a pawn of the other side stands beside the pushed pawn.
Apply(pos, m) ==
    LET b == pos.board
        nb == BoardAfter(pos, m)
        c == pos.stm
        double == KindOf(At(b, m.src)) = "Pawn" /\ Abs(m.dst - m.src) = 16
        beside == {t \in Squares : RankOf(t) = RankOf(m.dst)
                                   /\ Abs(FileOf(t) - FileOf(m.dst)) = 1}
        capturable == \E t \in beside : At(nb, t) = Pc(Other(c), "Pawn")
    IN [board |-> nb,
        stm |-> Other(c),
        castle |-> pos.castle \ RightsLost(m),
        ep |-> IF double /\ capturable THEN (m.src + m.dst) \div 2 ELSE NoSquare]

\* The promotion pieces in the order MoveGen yields them (PROMOTION_PIECES).
PromotionPieces == <<"Queen", "Knight", "Rook", "Bishop">>

\* The moves s -> d the generator yields: one, or one per promotion piece.
Variants(pos, s, d) ==
    IF KindOf(At(pos.board, s)) = "Pawn" /\ RankOf(d) = HomeRank(Other(pos.stm))
    THEN [i \in 1..4 |-> Mv(s, d, PromotionPieces[i])]
    ELSE <<Mv(s, d, "None")>>

\* Board::legal for a generated move: it leaves the own king unattacked.
\* The king stands on d if it is the piece that moved, and the pieces that may
\* attack it are those of the other side the move did not capture.
Safe(pos, s, d) ==
    LET b == pos.board
        c == pos.stm
        m == Mv(s, d, "None")
        nb == BoardAfter(pos, m)
        king == IF KindOf(At(b, s)) = "King" THEN d ELSE KingSquare(b, c)
        taken == IF IsEnPassant(pos, m)
                 THEN make_square(RankOf(s), FileOf(d)) ELSE d
    IN \A e \in Squares :
           ColorOf(At(b, e)) = Other(c) /\ e # taken => ~AttacksAs(At(b, e), nb, e, king)

LegalStep(pos, s, d) == PseudoLegal(pos, s, d) /\ Safe(pos, s, d)

\* The squares a piece of the given kind on s can reach on an empty board
\* (a superset of its destinations), to keep the enumeration short.
Reach(pos, s) ==
    LET k == KindOf(At(pos.board, s))
    IN {d \in Squares :
           LET df == Abs(FileOf(d) - FileOf(s))
               dr == Abs(RankOf(d) - RankOf(s))
           IN CASE k = "Pawn" -> df <= 1 /\ dr \in {1, 2}
                [] k = "Knight" -> df + dr = 3 /\ df # 0 /\ dr # 0
                [] k = "King" -> dr <= 1 /\ df <= 2
                [] k = "Rook" -> df = 0 \/ dr = 0
                [] k = "Bishop" -> df = dr
                [] k = "Queen" -> df = 0 \/ dr = 0 \/ df = dr
                [] OTHER -> FALSE}

PromoIndex(p) ==
    CASE p = "None" -> 0 [] p = "Queen" -> 0 [] p = "Knight" -> 1
      [] p = "Rook" -> 2 [] OTHER -> 3

\* The place of a piece kind in the order MoveGen enumerates the kinds.
KindIndex(k) ==
    CASE k = "Pawn" -> 0 [] k = "Knight" -> 1 [] k = "Bishop" -> 2
      [] k = "Rook" -> 3 [] k = "Queen" -> 4 [] OTHER -> 5

\* The elements of the set S of <<key, value>> pairs, ascending by key.
SortByKey(S) ==
    SelectSeq([i \in 1..Cardinality(S) |->
                  (CHOOSE x \in S : Cardinality({y \in S : y[1] < x[1]}) = i - 1)[2]],
              LAMBDA v : TRUE)

\* The legal moves from square s, each with its place in the generator's
\* order: by kind of piece, then by source, then by destination, the
\* promotions of one pawn step in the order of PromotionPieces.
KeyedFrom(pos, s) ==
    IF ColorOf(At(pos.board, s)) # pos.stm THEN {}
    ELSE LET base == (KindIndex(KindOf(At(pos.board, s))) * 64 + s) * 64
             steps == {d \in Reach(pos, s) : LegalStep(pos, s, d)}
         IN UNION {{<<(base + d) * 4 + PromoIndex(m.promo), m>> :
                       m \in Range(Variants(pos, s, d))} : d \in steps}

\* MoveGen::new_legal(&board), as the sequence the iterator yields.
LegalMoves(pos) == SortByKey(UNION {KeyedFrom(pos, s) : s \in Squares})

\* The moves of LegalMoves(pos) whose source is s, in the same order.
MovesFrom(pos, s) == SortByKey(KeyedFrom(pos, s))

\* The position has a legal move (BoardStatus::Ongoing).
HasLegalMove(pos) ==
    \E s \in Squares :
        /\ ColorOf(At(pos.board, s)) = pos.stm
        /\ \E d \in Reach(pos, s) : LegalStep(pos, s, d)

\* Board::legal(m)
IsLegal(pos, m) ==
    /\ m.src \in Squares
    /\ m.dst \in Squares
    /\ LegalStep(pos, m.src, m.dst)
    /\ m \in Range(Variants(pos, m.src, m.dst))

\* Game::result(): a game the program plays ends only by checkmate or
\* stalemate (it never resigns or offers a draw).
GameResult(game) ==
    IF HasLegalMove(game.pos) THEN "None"
    ELSE IF ~InCheck(game.pos.board, game.pos.stm) THEN "Stalemate"
    ELSE IF game.pos.stm = "White" THEN "BlackCheckmates"
    ELSE "WhiteCheckmates"

\* Game::make_move(m) would return true: the game is not over and the move is
\* legal in the current position.
CanMake(game, m) == GameResult(game) = "None" /\ IsLegal(game.pos, m)

\* The game after Game::make_move(m) returned true.
MakeMove(game, m) == [pos |-> Apply(game.pos, m), ply |-> game.ply + 1]

\* Game::new()
NewGame == [pos |-> StartPosition, ply |-> 0]

(***************************************************************************)
(* Text.  A string is the sequence of its characters' code points; the     *)
(* program reads its length in bytes (str::len) and its characters by      *)
(* position (chars().nth).                                                 *)
(***************************************************************************)
Ascii ==
    [a |-> 97, b |-> 98, c |-> 99, d |-> 100, e |-> 101, f |-> 102, g |-> 103,
     h |-> 104, i |-> 105, m |-> 109, n |-> 110, o |-> 111, q |-> 113,
     r |-> 114, s |-> 115, t |-> 116, v |-> 118, x |-> 120,
     space |-> 32, zero |-> 48, one |-> 49, nine |-> 57,
     nbsp |-> 160, eacute |-> 233, dotlessi |-> 305, tcaron |-> 357,
     emspace |-> 8195]

\* The digit character of d.
Digit(d) == Ascii.zero + d

\* The four-character notation of a move between two squares, as the engine
\* writes it: source file and rank, destination file and rank.
SquareText(s) == <<Ascii.a + FileOf(s), Ascii.one + RankOf(s)>>

PromoLetter(p) ==
    CASE p = "Queen" -> <<Ascii.q>> [] p = "Rook" -> <<Ascii.r>>
      [] p = "Bishop" -> <<Ascii.b>> [] p = "Knight" -> <<Ascii.n>>
      [] OTHER -> <<>>

\* Display for ChessMove, and the engine's notation of a move.
MoveText(m) == SquareText(m.src) \o SquareText(m.dst) \o PromoLetter(m.promo)

\* A square by file letter and rank digit.
Sq(f, r) == make_square(r - 1, Ascii[f] - Ascii.a)

\* The text of four characters: file, rank, file, rank.
Text4(f1, r1, f2, r2) == <<Ascii[f1], Digit(r1), Ascii[f2], Digit(r2)>>

\* The bytes a character takes in UTF-8.
Utf8Len(c) ==
    IF c < 128 THEN 1 ELSE IF c < 2048 THEN 2 ELSE IF c < 65536 THEN 3 ELSE 4

\* str::len(): the length in bytes.
ByteLen(str) ==
    LET f[k \in 0..Len(str)] ==
            IF k = 0 THEN 0 ELSE f[k - 1] + Utf8Len(str[k])
    IN f[Len(str)]

\* `c as u8`: the low eight bits of the code point.
AsU8(c) == c % 256

\* `x - y` on u8 where the result is below zero: the build with overflow
\* checks panics, the build without wraps.
SubU8(x, y) == (x - y + 256) % 256

SubOverflows(x, y) == x < y

(***************************************************************************)
(* ChessGame (src/game/mod.rs).                                            *)
(***************************************************************************)
\* ChessGame::new()
ChessGame_new ==
    [game |-> NewGame,
     selected_square |-> NoSquare,
     possible_moves |-> <<>>,
     message |-> <<"Welcome">>,
     thinking |-> FALSE]

\* No call made yet on the game.
NoCall == [op |-> "none", square |-> NoSquare, text |-> <<>>,
           ret |-> FALSE, panic |-> FALSE]

\* A setter that writes the message whatever the flag becomes: what
\* set_thinking is not.
set_thinking_with_message(g, t) ==
    [g EXCEPT !.thinking = t, !.message = <<"EngineThinking">>]

\* ChessGame::set_thinking
set_thinking(g, t) ==
    IF t THEN [g EXCEPT !.thinking = TRUE, !.message = <<"EngineThinking">>]
    ELSE [g EXCEPT !.thinking = FALSE]

\* ChessGame::set_message
set_message(g, message) == [g EXCEPT !.message = message]

\* ChessGame::update_possible_moves: the cache becomes the legal moves of
\* the current position whose source is the selected square.
update_possible_moves(g) ==
    [g EXCEPT !.possible_moves =
        IF g.selected_square # NoSquare
        THEN MovesFrom(g.game.pos, g.selected_square)
        ELSE <<>>]

\* The first cached move whose destination is the square (iter().find).
FindDest(moves, square) ==
    LET hits == SelectSeq(moves, LAMBDA m : m.dst = square)
    IN IF hits = <<>> THEN <<>> ELSE <<hits[1]>>

\* The square holds a piece, of either side: what select_square does not
\* ask for.
AnyPiece(game, square) == At(game.pos.board, square) # Empty

\* The square holds a piece of the side to move.
OwnPiece(game, square) == ColorOf(At(game.pos.board, square)) = game.pos.stm

Deselected(g) == [g EXCEPT !.selected_square = NoSquare, !.possible_moves = <<>>]

\* ChessGame::select_square: the game after the call and the value returned.
select_square(g, square) ==
    IF g.selected_square # NoSquare
    THEN LET found == FindDest(g.possible_moves, square)
         IN IF found # <<>>
            THEN IF CanMake(g.game, found[1])
                 THEN [g |-> [g EXCEPT !.game = MakeMove(g.game, found[1]),
                                       !.message = <<"Move", MoveText(found[1])>>,
                                       !.selected_square = NoSquare,
                                       !.possible_moves = <<>>],
                       ret |-> TRUE]
                 ELSE [g |-> g, ret |-> FALSE]
            ELSE IF OwnPiece(g.game, square)
                 THEN [g |-> update_possible_moves(
                                 [g EXCEPT !.selected_square = square]),
                       ret |-> FALSE]
                 ELSE [g |-> Deselected(g), ret |-> FALSE]
    ELSE IF OwnPiece(g.game, square)
         THEN [g |-> update_possible_moves([g EXCEPT !.selected_square = square]),
               ret |-> FALSE]
         ELSE [g |-> g, ret |-> FALSE]

\* chars().nth(k).unwrap() panics: the string has no character k (from 0).
NthPanics(str, k) == Len(str) <= k

\* The four subtractions of the decoding, in the order the code makes them:
\* character k (from 0) less 'a' for a file, less '1' for a rank.
Base(k) == IF k % 2 = 0 THEN Ascii.a ELSE Ascii.one

\* (c as u8 - base) as usize for character k of the string.
Coord(str, k) == SubU8(AsU8(str[k + 1]), Base(k))

\* Decoding the first four characters panics: a character is missing, or a
\* subtraction overflows in a build that checks overflow.
DecodePanics(str, checks) ==
    \E k \in 0..3 :
        \/ NthPanics(str, k)
        \/ checks /\ SubOverflows(AsU8(str[k + 1]), Base(k))

\* A reading of the fifth character that takes n for the bishop and b for
\* the knight: what the match of make_engine_move is not.
PromotionSwapped(str) ==
    IF ByteLen(str) >= 5
    THEN CASE str[5] = Ascii.q -> "Queen"
           [] str[5] = Ascii.r -> "Rook"
           [] str[5] = Ascii.b -> "Knight"
           [] str[5] = Ascii.n -> "Bishop"
           [] OTHER -> "None"
    ELSE "None"

\* The promotion the fifth character asks for ("None": no fifth byte, or a
\* character that names no piece).
PromotionOf(str) ==
    IF ByteLen(str) >= 5
    THEN CASE str[5] = Ascii.q -> "Queen"
           [] str[5] = Ascii.r -> "Rook"
           [] str[5] = Ascii.b -> "Bishop"
           [] str[5] = Ascii.n -> "Knight"
           [] OTHER -> "None"
    ELSE "None"

\* A loop that takes the first move between the squares, whatever promotion
\* is asked for: what the loop of make_engine_move is not.
AcceptFirst(pos, from, to, promotion) ==
    SelectSeq(MovesFrom(pos, from), LAMBDA m : m.dst = to)

\* A loop that takes only a move whose promotion is the one asked for, none
\* included: what the loop of make_engine_move is not.
AcceptExact(pos, from, to, promotion) ==
    SelectSeq(MovesFrom(pos, from),
              LAMBDA m : m.dst = to /\ m.promo = promotion)

\* The moves of the legal-move list the loop of make_engine_move accepts: the
\* source and destination are the decoded squares and the promotion, if one
\* is asked for, is the move's.
Accepted(pos, from, to, promotion) ==
    SelectSeq(MovesFrom(pos, from),
              LAMBDA m : m.dst = to /\ (promotion = "None" \/ m.promo = promotion))

\* A make_engine_move that applies the move, sets the message and leaves the
\* thinking flag as it is: what make_engine_move is not.
make_engine_move_keeps_flag(g, uci_move, checks) ==
    LET quiet == [g |-> g, ret |-> FALSE, panic |-> FALSE]
        panicked == [g |-> g, ret |-> FALSE, panic |-> TRUE]
    IN IF ByteLen(uci_move) < 4 THEN quiet
       ELSE IF DecodePanics(uci_move, checks) THEN panicked
       ELSE IF \E k \in 0..3 : Coord(uci_move, k) >= 8 THEN quiet
       ELSE LET from == make_square(Coord(uci_move, 1), Coord(uci_move, 0))
                to == make_square(Coord(uci_move, 3), Coord(uci_move, 2))
                routes == SelectSeq(MovesFrom(g.game.pos, from),
                                    LAMBDA m : m.dst = to)
            IN IF routes = <<>> THEN quiet
               ELSE IF ByteLen(uci_move) >= 5 /\ NthPanics(uci_move, 4)
               THEN panicked
               ELSE LET ok == Accepted(g.game.pos, from, to, PromotionOf(uci_move))
                    IN IF ok # <<>> /\ CanMake(g.game, ok[1])
                       THEN [g |-> [g EXCEPT
                                       !.game = MakeMove(g.game, ok[1]),
                                       !.message = <<"EngineMoved", uci_move>>],
                             ret |-> TRUE, panic |-> FALSE]
                       ELSE quiet

\* ChessGame::make_engine_move: the game after the call, the value returned,
\* and whether the call panicked instead of returning.  `checks` says whether
\* the build checks arithmetic overflow.
make_engine_move(g, uci_move, checks) ==
    LET quiet == [g |-> g, ret |-> FALSE, panic |-> FALSE]
        panicked == [g |-> g, ret |-> FALSE, panic |-> TRUE]
    IN IF ByteLen(uci_move) < 4 THEN quiet
       ELSE IF DecodePanics(uci_move, checks) THEN panicked
       ELSE IF \E k \in 0..3 : Coord(uci_move, k) >= 8 THEN quiet
       ELSE LET from == make_square(Coord(uci_move, 1), Coord(uci_move, 0))
                to == make_square(Coord(uci_move, 3), Coord(uci_move, 2))
                routes == SelectSeq(MovesFrom(g.game.pos, from),
                                    LAMBDA m : m.dst = to)
            IN IF routes = <<>> THEN quiet
               ELSE IF ByteLen(uci_move) >= 5 /\ NthPanics(uci_move, 4)
               THEN panicked
               ELSE LET ok == Accepted(g.game.pos, from, to, PromotionOf(uci_move))
                    IN IF ok # <<>> /\ CanMake(g.game, ok[1])
                       THEN [g |-> [g EXCEPT
                                       !.game = MakeMove(g.game, ok[1]),
                                       !.message = <<"EngineMoved", uci_move>>,
                                       !.thinking = FALSE],
                             ret |-> TRUE, panic |-> FALSE]
                       ELSE quiet

(***************************************************************************)
(* ChessEngine (src/engine/mod.rs): the bridge, the engine processes it    *)
(* spawns and the listener thread of each.                                 *)
(***************************************************************************)
\* A handshake that asks for readiness before it says uci: what start() does
\* not write.
HandshakeReadyFirst ==
    <<"isready", "uci", "setoption name Skill Level value 10",
      "setoption name Threads value 4", "setoption name Hash value 128",
      "setoption name UCI_AnalyseMode value false",
      "setoption name UCI_LimitStrength value false">>

\* The lines start() writes to a new process, in order.
Handshake ==
    <<"uci", "isready", "setoption name Skill Level value 10",
      "setoption name Threads value 4", "setoption name Hash value 128",
      "setoption name UCI_AnalyseMode value false",
      "setoption name UCI_LimitStrength value false">>

PositionLine(fen) == "position fen " \o fen

GoLine == "go movetime 2000"

QuitLine == "quit"

\* A process as spawn() leaves it: running, its input pipe held by the Child,
\* nothing written, nothing emitted, no listener.
Spawned ==
    [alive |-> TRUE, killed |-> FALSE, stdin |-> "open", written |-> <<>>,
     emitted |-> <<>>, nread |-> 0, listener |-> "none", lost |-> FALSE]

\* Dropping a Child closes the handles it holds and leaves the process running.
DropChild(pr) == [pr EXCEPT !.stdin = "closed"]

\* ChessEngine::new(): no process, an empty channel.
BridgeNew ==
    /\ process = 0
    /\ procs = <<>>
    /\ chan = <<>>
    /\ bridge = "live"
    /\ received = <<>>
    /\ bcall = [op |-> "new", ret |-> "Ok", value |-> <<>>]

\* char::is_whitespace: the characters with the Unicode property White_Space.
IsSpace(c) ==
    c \in (9..13) \cup {32, 133, 160, 5760} \cup (8192..8202)
              \cup {8232, 8233, 8239, 8287, 12288}

\* str::starts_with
StartsWith(line, prefix) ==
    Len(line) >= Len(prefix) /\ SubSeq(line, 1, Len(prefix)) = prefix

BestmoveText ==
    <<Ascii.b, Ascii.e, Ascii.s, Ascii.t, Ascii.m, Ascii.o, Ascii.v, Ascii.e>>

\* The places where a token of the line starts: no space, after a space or
\* at the start of the line.
TokenStarts(line) ==
    {i \in 1..Len(line) : ~IsSpace(line[i]) /\ (i = 1 \/ IsSpace(line[i - 1]))}

\* The token that starts at place i: up to the next space or the line's end.
TokenAt(line, i) ==
    LET stops == {j \in i..Len(line) : IsSpace(line[j])}
        last == IF stops = {} THEN Len(line)
                ELSE (CHOOSE j \in stops : \A k \in stops : j <= k) - 1
    IN SubSeq(line, i, last)

\* line.split_whitespace().collect(): the tokens of the line, in order.
split_whitespace(line) ==
    LET starts == TokenStarts(line)
    IN [n \in 1..Cardinality(starts) |->
           TokenAt(line, CHOOSE i \in starts :
                             Cardinality({j \in starts : j < i}) = n - 1)]

\* What the listener sends for a line it read: the second token of a line
\* that starts with "bestmove" and has two tokens; nothing otherwise.
Notification(line) ==
    IF StartsWith(line, BestmoveText) /\ Len(split_whitespace(line)) >= 2
    THEN <<split_whitespace(line)[2]>>
    ELSE <<>>

\* A queue that hands out its newest value first: what the channel is not.
SendFront(queue, rx, v) == IF rx = "live" THEN <<v>> \o queue ELSE queue

\* Sender::send(v).unwrap_or(()): the value joins the queue; with the receiver
\* gone the send fails and the failure is ignored.
Send(queue, rx, v) == IF rx = "live" THEN Append(queue, v) ELSE queue

(***************************************************************************)
(* App (src/main.rs): the binary keeps its own copy of the game state and  *)
(* of the engine bridge; it uses neither ChessGame nor ChessEngine.        *)
(***************************************************************************)
\* App::new(): the game fields of a new App.  Its engine_process is the
\* variable process, its channel the variable chan.
App_new ==
    [game |-> NewGame,
     selected_square |-> NoSquare,
     possible_moves |-> <<>>,
     message |-> <<"Welcome">>,
     thinking |-> FALSE]

\* No file key held.
NoFile == 8

\* A loop that starts its iteration at the input, the channel not polled:
\* what run_app does not do.
LoopAtInput == [at |-> "input", file |-> NoFile]

\* run_app about to draw and poll the channel, no key read.
LoopStart == [at |-> "draw", file |-> NoFile]

FileLetters == <<"a", "b", "c", "d", "e", "f", "g", "h">>

\* Display for Square
SquareName(s) == FileLetters[FileOf(s) + 1] \o ToString(RankOf(s) + 1)

\* A run of n empty squares in a FEN: its length, nothing for none.
FenRun(n) == IF n > 0 THEN ToString(n) ELSE ""

\* The rank so far with the next square's content c added.
FenStep(p, c) ==
    IF c = Empty THEN [s |-> p.s, e |-> p.e + 1]
    ELSE [s |-> p.s \o FenRun(p.e) \o c, e |-> 0]

\* One rank of the board in a FEN: the pieces' letters, runs of empty
\* squares as their length.
FenRank(b, r) ==
    LET f[i \in 0..8] ==
            IF i = 0 THEN [s |-> "", e |-> 0]
            ELSE FenStep(f[i - 1], At(b, make_square(r, i - 1)))
        whole == f[8]
    IN whole.s \o FenRun(whole.e)

FenCastle(rights) ==
    IF rights = {} THEN "-"
    ELSE (IF "WK" \in rights THEN "K" ELSE "")
         \o (IF "WQ" \in rights THEN "Q" ELSE "")
         \o (IF "BK" \in rights THEN "k" ELSE "")
         \o (IF "BQ" \in rights THEN "q" ELSE "")

\* Display for Board (current_position().to_string()): the FEN of the
\* position, with the move counters the crate always prints.
Fen(pos) ==
    LET placed[r \in 0..7] ==
            IF r = 0 THEN FenRank(pos.board, 7)
            ELSE placed[r - 1] \o "/" \o FenRank(pos.board, 7 - r)
    IN placed[7] \o " " \o (IF pos.stm = "White" THEN "w" ELSE "b")
       \o " " \o FenCastle(pos.castle)
       \o " " \o (IF pos.ep = NoSquare THEN "-" ELSE SquareName(pos.ep))
       \o " 0 1"

\* App::update_possible_moves
App_update_possible_moves(a) ==
    [a EXCEPT !.possible_moves =
        IF a.selected_square # NoSquare
        THEN MovesFrom(a.game.pos, a.selected_square)
        ELSE <<>>]

\* App::get_engine_move on the process held: the App after the call, the
\* lines written, and the error if a write failed.  With a process and its
\* input pipe the position and the go line are written and the flag is set;
\* a write to a process that has gone fails before the flag is set.  The
\* two lines are two writes: when the process exits between them (`exits`)
\* the position line is written and the write of the go line fails.
App_get_engine_move(a, held, exits) ==
    IF held # <<>> /\ held[1].stdin = "open"
    THEN IF held[1].alive
         THEN IF exits
              THEN [a |-> a, wrote |-> <<PositionLine(Fen(a.game.pos))>>,
                    err |-> TRUE]
              ELSE [a |-> [a EXCEPT !.thinking = TRUE,
                                    !.message = <<"EngineThinking">>],
                    wrote |-> <<PositionLine(Fen(a.game.pos)), GoLine>>,
                    err |-> FALSE]
         ELSE [a |-> a, wrote |-> <<>>, err |-> TRUE]
    ELSE [a |-> a, wrote |-> <<>>, err |-> FALSE]

\* App::select_square: the App after the call and the lines it wrote to the
\* engine.  With a square selected, a cached move to the new square is made
\* and the engine asked to move unless the game is over; any other square
\* becomes the selection.  With none selected, a square with a piece of the
\* side to move becomes the selection.
App_select_square(a, square, held, exits) ==
    IF a.selected_square # NoSquare
    THEN LET found == FindDest(a.possible_moves, square)
         IN IF found # <<>>
            THEN IF CanMake(a.game, found[1])
                 THEN LET moved == [a EXCEPT
                                       !.game = MakeMove(a.game, found[1]),
                                       !.message = <<"Move", MoveText(found[1])>>,
                                       !.selected_square = NoSquare,
                                       !.possible_moves = <<>>]
                          over == GameResult(moved.game)
                          asked == App_get_engine_move(moved, held, exits)
                      IN IF over # "None"
                         THEN [a |-> [moved EXCEPT !.message = <<"GameOver", over>>],
                               wrote |-> <<>>]
                         ELSE IF asked.err
                         THEN [a |-> [moved EXCEPT !.message = <<"EngineError">>],
                               wrote |-> asked.wrote]
                         ELSE [a |-> asked.a, wrote |-> asked.wrote]
                 ELSE [a |-> a, wrote |-> <<>>]
            ELSE [a |-> App_update_possible_moves(
                            [a EXCEPT !.selected_square = square]),
                  wrote |-> <<>>]
    ELSE IF OwnPiece(a.game, square)
         THEN [a |-> App_update_possible_moves(
                         [a EXCEPT !.selected_square = square]),
               wrote |-> <<>>]
         ELSE [a |-> a, wrote |-> <<>>]

(***************************************************************************)
(* The bridge under its callers, its engine processes and their listeners. *)
(***************************************************************************)
\* The events of one run that make the state grow: the processes started, the
\* think requests written and the lines the engine processes emit, in all.
MaxEvents == 3

Text(str) == [i \in 1..Len(str) |-> Ascii[str[i]]]

\* The lines an engine emits: an answer, an answer with a ponder move, and a
\* line that only mentions bestmove.
EngineLines ==
    {BestmoveText \o <<Ascii.space>> \o Text4("e", 7, "e", 5),
     BestmoveText \o <<Ascii.space>> \o Text4("d", 7, "d", 5)
         \o <<Ascii.space>> \o Text(<<"o">>),
     Text(<<"i", "n", "f", "o", "space">>) \o BestmoveText
         \o <<Ascii.space>> \o Text4("e", 2, "e", 4)}

\* The positions the caller asks about.
Fens == {Fen(StartPosition)}

\* The lines a failing handshake wrote before the write that failed.
HandshakeCuts == 0..(Len(Handshake) - 1)

\* The think requests written to a process.
Requests(pr) == Cardinality({i \in 1..Len(pr.written) : pr.written[i] = GoLine})

Requested == LET f[p \in 0..Len(procs)] ==
                     IF p = 0 THEN 0 ELSE f[p - 1] + Requests(procs[p])
             IN f[Len(procs)]

\* The lines the processes have emitted, in all.
Emitted == LET f[p \in 0..Len(procs)] ==
                   IF p = 0 THEN 0 ELSE f[p - 1] + Len(procs[p].emitted)
           IN f[Len(procs)]

\* The events of the run so far.
Work == Len(procs) + Requested + Emitted

\* The procs with the Child the bridge held (if any) dropped.
Replaced == [p \in 1..Len(procs) |->
                IF p = process THEN DropChild(procs[p]) ELSE procs[p]]

\* ChessEngine::start, the spawn failing: the error is returned before
\* anything is assigned.
StartSpawnFails ==
    /\ bridge = "live"
    /\ bcall' = [op |-> "start", ret |-> "Err", value |-> <<>>]
    /\ UNCHANGED <<process, procs, chan, bridge, received>>
    /\ UNCHANGED <<gameVars, appVars>>

\* ChessEngine::start, spawn and handshake succeeding: the new Child replaces
\* the one held, the handshake is written, the listener of the new process is
\* started, and the input pipe is put back into the Child.
StartOk ==
    /\ bridge = "live"
    /\ Work < MaxEvents
    /\ procs' = Append(Replaced, [Spawned EXCEPT !.written = Handshake,
                                                 !.listener = "running"])
    /\ process' = Len(procs) + 1
    /\ bcall' = [op |-> "start", ret |-> "Ok", value |-> <<>>]
    /\ UNCHANGED <<chan, bridge, received>>
    /\ UNCHANGED <<gameVars, appVars>>

\* ChessEngine::start, a handshake write failing (the process has gone): the
\* error is returned at once; the input pipe, taken out of the Child, is
\* closed, and no listener is started.
StartHandshakeFails ==
    \E k \in HandshakeCuts :
        /\ bridge = "live"
        /\ Work < MaxEvents
        /\ procs' = Append(Replaced, [Spawned EXCEPT
                                         !.alive = FALSE,
                                         !.written = SubSeq(Handshake, 1, k),
                                         !.stdin = "closed"])
        /\ process' = Len(procs) + 1
        /\ bcall' = [op |-> "start", ret |-> "Err", value |-> <<>>]
        /\ UNCHANGED <<chan, bridge, received>>
        /\ UNCHANGED <<gameVars, appVars>>

\* ChessEngine::get_move: with a process and its input pipe, the position
\* line and the go line are written, each by a write of its own; a write to
\* a process that has gone fails and the error is returned, which the second
\* write does when the process exits between the two.  Without a process or
\* without its pipe nothing is written and Ok is returned.
GetMove ==
    \E fen \in Fens :
        /\ bridge = "live"
        /\ IF process # 0 /\ procs[process].stdin = "open"
           THEN IF procs[process].alive
                THEN \/ /\ Work < MaxEvents
                        /\ procs' = [procs EXCEPT ![process].written =
                                        @ \o <<PositionLine(fen), GoLine>>]
                        /\ bcall' = [op |-> "get_move", ret |-> "Ok",
                                     value |-> <<>>]
                     \/ /\ procs' = [procs EXCEPT
                                        ![process].written =
                                            Append(@, PositionLine(fen)),
                                        ![process].alive = FALSE]
                        /\ bcall' = [op |-> "get_move", ret |-> "Err",
                                     value |-> <<>>]
                ELSE /\ bcall' = [op |-> "get_move", ret |-> "Err", value |-> <<>>]
                     /\ UNCHANGED procs
           ELSE /\ bcall' = [op |-> "get_move", ret |-> "Ok", value |-> <<>>]
                /\ UNCHANGED procs
        /\ UNCHANGED <<process, chan, bridge, received>>
        /\ UNCHANGED <<gameVars, appVars>>

\* ChessEngine::try_receive_move: the head of the queue if there is one
\* (Some), None otherwise; it never waits.
TryReceiveMove ==
    /\ bridge = "live"
    /\ IF chan # <<>>
       THEN /\ chan' = Tail(chan)
            /\ received' = Append(received, Head(chan))
            /\ bcall' = [op |-> "try_receive_move", ret |-> "Some",
                         value |-> Head(chan).text]
       ELSE /\ bcall' = [op |-> "try_receive_move", ret |-> "None",
                         value |-> <<>>]
            /\ UNCHANGED <<chan, received>>
    /\ UNCHANGED <<process, procs, bridge>>
    /\ UNCHANGED <<gameVars, appVars>>

\* A shutdown that asks the engine to quit and does not kill it: what drop()
\* is not.
QuitOnly(pr) ==
    [pr EXCEPT !.written = IF pr.stdin = "open" /\ pr.alive
                           THEN Append(@, QuitLine) ELSE @,
               !.stdin = "closed"]

\* The process held after drop() ran on it: quit written if its input pipe is
\* there (a failure of the write ignored), then killed.
Stopped(pr) ==
    [pr EXCEPT !.written = IF pr.stdin = "open" /\ pr.alive
                           THEN Append(@, QuitLine) ELSE @,
               !.alive = FALSE,
               !.killed = TRUE,
               !.stdin = "closed"]

\* Drop for ChessEngine, and the drop of its fields after it: the Child, the
\* receiver (with what it still queued) and the sender.
DropEngine ==
    /\ bridge = "live"
    /\ bridge' = "dropped"
    /\ procs' = [p \in 1..Len(procs) |->
                    IF p = process THEN Stopped(procs[p]) ELSE procs[p]]
    /\ chan' = <<>>
    /\ bcall' = [op |-> "drop", ret |-> "Ok", value |-> <<>>]
    /\ UNCHANGED <<process, received>>
    /\ UNCHANGED <<gameVars, appVars>>

\* The listener thread of process p takes the next line of the process's
\* output and sends its notification, if it has one.
ListenerReads ==
    \E p \in 1..Len(procs) :
        LET pr == procs[p]
            line == pr.emitted[pr.nread + 1]
            note == Notification(line)
        IN /\ pr.listener = "running"
           /\ pr.nread < Len(pr.emitted)
           /\ chan' = IF note = <<>> THEN chan
                      ELSE Send(chan, bridge, [text |-> note[1], from |-> p])
           /\ procs' = [procs EXCEPT ![p].nread = @ + 1,
                                     ![p].lost = @ \/ (note # <<>> /\ bridge # "live")]
           /\ UNCHANGED <<process, bridge, received, bcall>>
           /\ UNCHANGED <<gameVars, appVars>>

\* The listener thread of process p finds the output closed and ends.
ListenerEnds ==
    \E p \in 1..Len(procs) :
        /\ procs[p].listener = "running"
        /\ procs[p].nread = Len(procs[p].emitted)
        /\ ~procs[p].alive
        /\ procs' = [procs EXCEPT ![p].listener = "done"]
        /\ UNCHANGED <<process, chan, bridge, received, bcall>>
        /\ UNCHANGED <<gameVars, appVars>>

\* A running engine process writes a line to its output.
EngineEmits ==
    \E p \in 1..Len(procs), line \in EngineLines :
        /\ procs[p].alive
        /\ Work < MaxEvents
        /\ procs' = [procs EXCEPT ![p].emitted = Append(@, line)]
        /\ UNCHANGED <<process, chan, bridge, received, bcall>>
        /\ UNCHANGED <<gameVars, appVars>>

\* A running engine process ends by itself.
EngineExits ==
    \E p \in 1..Len(procs) :
        /\ procs[p].alive
        /\ procs' = [procs EXCEPT ![p].alive = FALSE]
        /\ UNCHANGED <<process, chan, bridge, received, bcall>>
        /\ UNCHANGED <<gameVars, appVars>>

InitBridge ==
    /\ BridgeNew
    /\ cg = ChessGame_new
    /\ call = NoCall
    /\ overflow_checks = FALSE
    /\ halted = FALSE
    /\ app = App_new
    /\ loop = LoopStart

NextBridge ==
    \/ StartSpawnFails
    \/ StartOk
    \/ StartHandshakeFails
    \/ GetMove
    \/ TryReceiveMove
    \/ DropEngine
    \/ ListenerReads
    \/ ListenerEnds
    \/ EngineEmits
    \/ EngineExits

SpecBridge == InitBridge /\ [][NextBridge]_vars

(***************************************************************************)
(* The library's game state machine under its callers: any sequence of     *)
(* select_square, make_engine_move and set_thinking calls on one ChessGame.*)
(***************************************************************************)
\* The length of the games explored.
MaxPly == 2

\* The squares the callers select.
InputSquares == {Sq("e", 2), Sq("e", 4), Sq("e", 7), Sq("e", 5)}

\* The notations the callers pass: moves, legal or not, for either side, a
\* move with a fifth character that names a piece or none, a text that is too
\* short, and texts with characters outside a-h and 1-8, some of several
\* bytes.
Notations ==
    {Text4("e", 2, "e", 4), Text4("d", 2, "d", 4), Text4("e", 7, "e", 5),
     Text4("a", 1, "h", 8),
     Text4("e", 2, "e", 4) \o <<Ascii.x>>,
     Text4("e", 7, "e", 5) \o <<Ascii.q>>,
     <<Ascii.e, Digit(2)>>,
     Text4("e", 2, "e", 0),
     Text4("i", 2, "e", 9),
     <<Ascii.eacute, Digit(1), Ascii.a>>,
     <<Ascii.tcaron, Digit(2), Ascii.e, Digit(4)>>,
     <<Ascii.tcaron, Digit(2), Ascii.e, Digit(4), Ascii.x>>}

InitGame ==
    /\ cg = ChessGame_new
    /\ call = NoCall
    /\ overflow_checks \in BOOLEAN
    /\ halted = FALSE
    /\ BridgeNew
    /\ app = App_new
    /\ loop = LoopStart

SelectSquare ==
    \E square \in InputSquares :
        LET r == select_square(cg, square)
        IN /\ ~halted
           /\ r.g.game.ply <= MaxPly
           /\ cg' = r.g
           /\ call' = [NoCall EXCEPT !.op = "select_square",
                                     !.square = square, !.ret = r.ret]
           /\ UNCHANGED <<overflow_checks, halted>>
           /\ UNCHANGED <<bridgeVars, appVars>>

MakeEngineMove ==
    \E text \in Notations :
        LET r == make_engine_move(cg, text, overflow_checks)
        IN /\ ~halted
           /\ r.g.game.ply <= MaxPly
           /\ cg' = r.g
           /\ call' = [NoCall EXCEPT !.op = "make_engine_move", !.text = text,
                                     !.ret = r.ret, !.panic = r.panic]
           /\ halted' = r.panic
           /\ UNCHANGED overflow_checks
           /\ UNCHANGED <<bridgeVars, appVars>>

SetThinking ==
    \E t \in BOOLEAN :
        /\ ~halted
        /\ cg' = set_thinking(cg, t)
        /\ call' = [NoCall EXCEPT !.op = "set_thinking", !.ret = t]
        /\ UNCHANGED <<overflow_checks, halted>>
        /\ UNCHANGED <<bridgeVars, appVars>>

\* The message the callers set: a text of their own.
CallerMessages == {<<"Caller", <<Ascii.x>>>>}

SetMessage ==
    \E message \in CallerMessages :
        /\ ~halted
        /\ cg' = set_message(cg, message)
        /\ call' = [NoCall EXCEPT !.op = "set_message"]
        /\ UNCHANGED <<overflow_checks, halted>>
        /\ UNCHANGED <<bridgeVars, appVars>>

UpdatePossibleMoves ==
    /\ ~halted
    /\ cg' = update_possible_moves(cg)
    /\ call' = [NoCall EXCEPT !.op = "update_possible_moves"]
    /\ UNCHANGED <<overflow_checks, halted>>
    /\ UNCHANGED <<bridgeVars, appVars>>

NextGame ==
    \/ SelectSquare
    \/ MakeEngineMove
    \/ SetThinking
    \/ SetMessage
    \/ UpdatePossibleMoves

SpecGame == InitGame /\ [][NextGame]_vars

(***************************************************************************)
(* make_engine_move as a function of the position and the notation: a game *)
(* that has reached one of a few positions, and one reply decoded on it.   *)
(***************************************************************************)
\* The board of the eight ranks given, the first rank first.
BoardOf(ranks) ==
    ranks[1] \o ranks[2] \o ranks[3] \o ranks[4]
        \o ranks[5] \o ranks[6] \o ranks[7] \o ranks[8]

EmptyRank == <<".", ".", ".", ".", ".", ".", ".", ".">>

\* rnbq1k1r/pp1Pbppp/2p5/8/2B5/8/PPP1NnPP/RNBQK2R w KQ - : White promotes on
\* d8 or, capturing, on c8, and may castle.
WhitePromotes ==
    [board |-> BoardOf(<<
        <<"R", "N", "B", "Q", "K", ".", ".", "R">>,
        <<"P", "P", "P", ".", "N", "n", "P", "P">>,
        EmptyRank,
        <<".", ".", "B", ".", ".", ".", ".", ".">>,
        EmptyRank,
        <<".", ".", "p", ".", ".", ".", ".", ".">>,
        <<"p", "p", ".", "P", "b", "p", "p", "p">>,
        <<"r", "n", "b", "q", ".", "k", ".", "r">> >>),
     stm |-> "White", castle |-> {"WK", "WQ"}, ep |-> NoSquare]

\* 4k3/8/8/8/8/8/p6P/1N2K3 b - - : Black promotes on a1 or, capturing, on b1.
BlackPromotes ==
    [board |-> BoardOf(<<
        <<".", "N", ".", ".", "K", ".", ".", ".">>,
        <<"p", ".", ".", ".", ".", ".", ".", "P">>,
        EmptyRank, EmptyRank, EmptyRank, EmptyRank, EmptyRank,
        <<".", ".", ".", ".", "k", ".", ".", ".">> >>),
     stm |-> "Black", castle |-> {}, ep |-> NoSquare]

\* rnbqkbnr/ppp1p1pp/8/3pPp2/8/8/PPPP1PPP/RNBQKBNR w KQkq f6 : White may
\* capture en passant on f6.
WhiteTakesEnPassant ==
    [board |-> BoardOf(<<
        <<"R", "N", "B", "Q", "K", "B", "N", "R">>,
        <<"P", "P", "P", "P", ".", "P", "P", "P">>,
        EmptyRank, EmptyRank,
        <<".", ".", ".", "p", "P", "p", ".", ".">>,
        EmptyRank,
        <<"p", "p", "p", ".", "p", ".", "p", "p">>,
        <<"r", "n", "b", "q", "k", "b", "n", "r">> >>),
     stm |-> "White", castle |-> {"WK", "WQ", "BK", "BQ"}, ep |-> Sq("f", 6)]

\* The positions the games decoded on have reached.
Positions == {StartPosition, WhitePromotes, BlackPromotes, WhiteTakesEnPassant}

\* The notations tried for a legal move: its four characters alone, and
\* with each promotion letter or a letter that names no piece after them.
RouteTexts(m) ==
    LET route == SquareText(m.src) \o SquareText(m.dst)
    IN {route} \cup {route \o <<c>> :
                        c \in {Ascii.q, Ascii.r, Ascii.b, Ascii.n, Ascii.x}}

InitDecode ==
    /\ cg \in {[ChessGame_new EXCEPT !.game = [pos |-> p, ply |-> 0]] :
                  p \in Positions}
    /\ call = NoCall
    /\ overflow_checks \in BOOLEAN
    /\ halted = FALSE
    /\ BridgeNew
    /\ app = App_new
    /\ loop = LoopStart

\* One call of make_engine_move with a notation of a legal move's route.
DecodeReply ==
    \E m \in Range(LegalMoves(cg.game.pos)) :
        \E text \in RouteTexts(m) :
            LET r == make_engine_move(cg, text, overflow_checks)
            IN /\ call.op = "none"
               /\ cg' = r.g
               /\ call' = [NoCall EXCEPT !.op = "make_engine_move",
                                         !.text = text,
                                         !.ret = r.ret, !.panic = r.panic]
               /\ halted' = r.panic
               /\ UNCHANGED overflow_checks
               /\ UNCHANGED <<bridgeVars, appVars>>

NextDecode == DecodeReply

SpecDecode == InitDecode /\ [][NextDecode]_vars

(***************************************************************************)
(* The binary: run_app over an App whose engine was started, the keys the  *)
(* terminal delivers, the engine process and its listener.                 *)
(***************************************************************************)
\* The key events the terminal delivers: a file letter, rank digits and quit
\* (a digit read where a file is awaited, like q where a rank is, is a key
\* that means nothing).
Keys == {"e", "2", "4", "5", "7", "q"}

RankDigits == {"1", "2", "3", "4", "5", "6", "7", "8"}

\* File::from_index((c as u8 - b'a') as usize) for a key 'a'..'h'
FileIndex(key) == CHOOSE f \in 0..7 : FileLetters[f + 1] = key

\* Rank::from_index((r as u8 - b'1') as usize) for a key '1'..'8'
RankIndex(key) == CHOOSE r \in 0..7 : ToString(r + 1) = key

\* The process the App holds, if any.
Held == IF process = 0 THEN <<>> ELSE <<procs[process]>>

\* The decoding run_app makes of a notification it received: the App after
\* it and whether it panicked.
App_receive(a, best_move, checks) ==
    LET quiet == [a |-> a, panic |-> FALSE]
        panicked == [a |-> a, panic |-> TRUE]
    IN IF ByteLen(best_move) >= 4
       THEN IF DecodePanics(best_move, checks) THEN panicked
            ELSE IF \A k \in 0..3 : Coord(best_move, k) < 8
            THEN LET from_square == make_square(Coord(best_move, 1),
                                                Coord(best_move, 0))
                     to_square == make_square(Coord(best_move, 3),
                                              Coord(best_move, 2))
                     hits == SelectSeq(MovesFrom(a.game.pos, from_square),
                                       LAMBDA m : m.dst = to_square)
                     fits == SelectSeq(hits,
                                 LAMBDA m : PromotionOf(best_move) = "None"
                                            \/ m.promo = PromotionOf(best_move))
                 IN IF hits = <<>> THEN quiet
                    ELSE IF ByteLen(best_move) >= 5 /\ NthPanics(best_move, 4)
                    THEN panicked
                    ELSE IF fits # <<>> /\ CanMake(a.game, fits[1])
                    THEN [a |-> [a EXCEPT
                                    !.game = MakeMove(a.game, fits[1]),
                                    !.message = <<"EngineMoved", best_move>>,
                                    !.thinking = FALSE],
                          panic |-> FALSE]
                    ELSE quiet
            ELSE quiet
       ELSE quiet

\* The lines the engines emit in these runs decode without a subtraction
\* below zero, so the two builds run alike and one of them is taken.
InitApp ==
    /\ app = App_new
    /\ loop = LoopStart
    /\ process = 1
    /\ procs = <<[Spawned EXCEPT !.written = Handshake, !.listener = "running"]>>
    /\ chan = <<>>
    /\ bridge = "live"
    /\ received = <<>>
    /\ bcall = [op |-> "start", ret |-> "Ok", value |-> <<>>]
    /\ cg = ChessGame_new
    /\ call = NoCall
    /\ overflow_checks = FALSE
    /\ halted = FALSE

\* The top of the loop: the screen is drawn and the channel polled once; a
\* notification found is decoded and applied.  A panic unwinds run_app and
\* drops the App.
AppPoll ==
    /\ ~halted
    /\ loop.at = "draw"
    /\ IF chan # <<>>
       THEN LET r == App_receive(app, Head(chan).text, overflow_checks)
            IN /\ r.a.game.ply <= MaxPly
               /\ app' = r.a
               /\ halted' = r.panic
               /\ chan' = IF r.panic THEN <<>> ELSE Tail(chan)
               /\ bridge' = IF r.panic THEN "dropped" ELSE bridge
               /\ procs' = IF r.panic THEN Replaced ELSE procs
       ELSE UNCHANGED <<app, halted, chan, bridge, procs>>
    /\ loop' = [loop EXCEPT !.at = "input"]
    /\ UNCHANGED <<cg, call, overflow_checks, process, received, bcall>>

\* event::poll(timeout) returns false: no event within the tick.
AppNoEvent ==
    /\ ~halted
    /\ loop.at = "input"
    /\ loop' = LoopStart
    /\ UNCHANGED <<app, gameVars, bridgeVars>>

\* event::poll returns true and the event read is a key: q returns from
\* run_app, which drops the App (its receiver and its Child, which is not
\* killed); a file letter is kept and the rank awaited; any other key is
\* ignored.
AppKey ==
    \E key \in Keys :
        /\ ~halted
        /\ loop.at = "input"
        /\ IF key = "q"
           THEN /\ loop' = [at |-> "returned", file |-> NoFile]
                /\ bridge' = "dropped"
                /\ chan' = <<>>
                /\ procs' = Replaced
           ELSE /\ loop' = IF key \in Range(FileLetters)
                           THEN [at |-> "rank", file |-> FileIndex(key)]
                           ELSE LoopStart
                /\ UNCHANGED <<bridge, chan, procs>>
        /\ UNCHANGED <<app, gameVars, process, received, bcall>>

\* The second event::read(), which waits for the next event: a rank digit
\* selects the square; any other key is ignored.  The engine process may
\* exit between the two writes of a request: the position line alone is
\* then written.
AppRankKey ==
    \E key \in Keys, exits \in BOOLEAN :
        /\ ~halted
        /\ loop.at = "rank"
        /\ IF key \in RankDigits
           THEN LET r == App_select_square(
                             app, make_square(RankIndex(key), loop.file),
                             Held, exits)
                IN /\ exits => Len(r.wrote) = 1
                   /\ r.a.game.ply <= MaxPly
                   /\ app' = r.a
                   /\ procs' = IF r.wrote = <<>> THEN procs
                               ELSE [procs EXCEPT
                                        ![process].written = @ \o r.wrote,
                                        ![process].alive = @ /\ ~exits]
           ELSE /\ ~exits
                /\ UNCHANGED <<app, procs>>
        /\ loop' = LoopStart
        /\ UNCHANGED <<gameVars, process, chan, bridge, received, bcall>>

NextApp ==
    \/ AppPoll
    \/ AppNoEvent
    \/ AppKey
    \/ AppRankKey
    \/ EngineEmits
    \/ ListenerReads
    \/ ListenerEnds
    \/ EngineExits

SpecApp == InitApp /\ [][NextApp]_vars

(***************************************************************************)
(* Properties of the game state machine.                                   *)
(***************************************************************************)
\* The cache a game in sync holds: the legal moves of the current position
\* from the selected square, none when no square is selected.
CacheOf(g) ==
    IF g.selected_square = NoSquare THEN <<>>
    ELSE SelectSeq(LegalMoves(g.game.pos), LAMBDA m : m.src = g.selected_square)

\* C2: after any call of select_square the cached possible_moves is exactly
\* the legal moves of the current position from the selected square, and is
\* empty when no square is selected.
C2_SelectionInvariant ==
    call.op = "select_square" => cg.possible_moves = CacheOf(cg)

\* The first four characters of the text spell the two squares.
Spells(text, src, dst) ==
    Len(text) >= 4 /\ SubSeq(text, 1, 4) = SquareText(src) \o SquareText(dst)

\* No legal move of the position goes between the squares the text spells.
MatchesNoLegalMove(text, pos) ==
    \A m \in Range(LegalMoves(pos)) : ~Spells(text, m.src, m.dst)

\* C3: a call of make_engine_move with a notation that matches no legal move
\* returns false and leaves the whole game (position, side to move,
\* selection, cache, message, thinking flag) as it was.
C3_IdempotentDiscard ==
    [][(call'.op = "make_engine_move"
        /\ MatchesNoLegalMove(call'.text, cg.game.pos))
       => (~call'.panic /\ ~call'.ret /\ cg' = cg)]_vars

\* C4: whenever make_engine_move changes the position, it applied one move of
\* the prior position's legal-move list whose source and destination are the
\* squares the first four characters spell.
C4_DecodingIsLookup ==
    [][(call'.op = "make_engine_move" /\ cg'.game # cg.game)
       => \E m \in Range(LegalMoves(cg.game.pos)) :
              /\ Spells(call'.text, m.src, m.dst)
              /\ cg'.game = MakeMove(cg.game, m)]_vars

\* C5: in every reachable state the cache is in sync with the current
\* position and selection.
C5_CacheInSync == cg.possible_moves = CacheOf(cg)

(***************************************************************************)
(* Properties of the interaction loop.                                     *)
(***************************************************************************)
\* C1: the loop never sends a think request (position + go) while the
\* thinking flag is set.
C1_AtMostOnePendingThink ==
    [][Requested' > Requested => ~app.thinking]_vars

\* C6: the loop never waits for input without bound while a move
\* notification is queued.
C6_NoStarvation == ~(loop.at = "rank" /\ chan # <<>>)

(***************************************************************************)
(* Properties of the bridge.                                               *)
(***************************************************************************)
\* The entries of a queue that process p's listener sent, as texts.
TextsFrom(queue, p) ==
    LET own == SelectSeq(queue, LAMBDA e : e.from = p)
    IN [i \in 1..Len(own) |-> own[i].text]

\* The notifications of a sequence of lines, in order.
Notes(lines) ==
    LET f[i \in 0..Len(lines)] ==
            IF i = 0 THEN <<>> ELSE f[i - 1] \o Notification(lines[i])
    IN f[Len(lines)]

IsPrefix(a, b) == Len(a) <= Len(b) /\ SubSeq(b, 1, Len(a)) = a

\* What was received from each process and what is still queued from it are
\* together the notifications of the lines its listener has read, in order;
\* what was received is a prefix of the notifications of the lines the
\* process emitted.
FifoPerProcess ==
    \A p \in 1..Len(procs) :
        LET got == TextsFrom(received, p)
            sent == Notes(SubSeq(procs[p].emitted, 1, procs[p].nread))
        IN /\ IsPrefix(got, Notes(procs[p].emitted))
           /\ bridge = "live" => got \o TextsFrom(chan, p) = sent

\* A poll returns the head of the queue, or None when the queue is empty.
PollAnswers ==
    TryReceiveMove =>
        IF chan = <<>>
        THEN bcall'.ret = "None" /\ received' = received
        ELSE /\ bcall'.ret = "Some"
             /\ bcall'.value = Head(chan).text
             /\ received' = Append(received, Head(chan))
             /\ chan' = Tail(chan)

\* C7: the values try_receive_move returns are, for each engine process, a
\* prefix of the second tokens of the bestmove lines the process emitted, in
\* order, with none lost, repeated or reordered on the way; a poll is always
\* possible at once and answers None on an empty queue.
C7_LosslessFifo ==
    /\ [](FifoPerProcess /\ (bridge = "live" => ENABLED TryReceiveMove))
    /\ [][PollAnswers]_vars

C7_TwoInOrder ==
    /\ Len(received) = 2
    /\ received[1].from = received[2].from
    /\ received[1].text # received[2].text
    /\ bcall.op = "try_receive_move"
    /\ bcall.ret = "None"

\* C8: once the bridge is dropped the process it held is killed, the queue
\* is gone, and nothing more is received, whatever the listener reads
\* afterwards.
C8_StopDiscards ==
    /\ [](bridge = "dropped" =>
            /\ chan = <<>>
            /\ process # 0 => procs[process].killed /\ ~procs[process].alive)
    /\ [][bridge = "dropped" => received' = received /\ chan' = <<>>]_vars

C8_ReplyLostAfterStop ==
    /\ bridge = "dropped"
    /\ process # 0
    /\ Requests(procs[process]) > 0
    /\ procs[process].lost
    /\ received = <<>>

\* C9: after the bridge is dropped every process it spawned has been killed.
C9_NoLeakedChild ==
    bridge = "dropped" => \A p \in 1..Len(procs) : procs[p].killed

\* C10: a bridge has at most one engine process with a listener, and at most
\* one listener feeding its channel.
C10_OneProcessOneListener ==
    Cardinality({p \in 1..Len(procs) : procs[p].listener # "none"}) <= 1

(***************************************************************************)
(* Properties of the decoding.                                             *)
(***************************************************************************)
\* The text has four characters or more, and its first four are a file
\* letter a-h, a rank digit 1-8, a file letter and a rank digit.
SpellsSquares(text) ==
    /\ Len(text) >= 4
    /\ \A k \in {1, 3} : text[k] >= Ascii.a /\ text[k] <= Ascii.h
    /\ \A k \in {2, 4} : text[k] >= Ascii.one /\ text[k] <= Ascii.one + 7

\* C12: make_engine_move never panics, and returns false for a text with
\* fewer than four characters or with one of its first four characters
\* outside a-h / 1-8.
C12_NoAbortOnMalformed ==
    call.op = "make_engine_move" =>
        /\ ~call.panic
        /\ ~SpellsSquares(call.text) => ~call.ret

\* The square the third and fourth characters of a well-formed text spell.
TextDst(text) == make_square(text[4] - Ascii.one, text[3] - Ascii.a)

\* The piece the fifth character names ("None": it names none).
LetterPiece(c) ==
    CASE c = Ascii.q -> "Queen" [] c = Ascii.r -> "Rook"
      [] c = Ascii.b -> "Bishop" [] c = Ascii.n -> "Knight"
      [] OTHER -> "None"

\* The legal moves of the position between the squares the text spells.
RouteMoves(text, pos) ==
    {m \in Range(LegalMoves(pos)) : Spells(text, m.src, m.dst)}

\* C13: the notation of a legal move, passed to make_engine_move, is
\* accepted and applies that very move.
C13_RoundTrip ==
    [][call'.op = "make_engine_move" =>
          \A m \in Range(LegalMoves(cg.game.pos)) :
              call'.text = MoveText(m) =>
                  call'.ret /\ cg'.game = MakeMove(cg.game, m)]_vars

C13_RookPromotionApplied ==
    /\ call.op = "make_engine_move"
    /\ call.ret
    /\ Len(call.text) = 5
    /\ call.text[5] = Ascii.r
    /\ RankOf(TextDst(call.text)) = 7
    /\ At(cg.game.pos.board, TextDst(call.text)) = "R"

\* C14: with a fifth character q, r, b or n on a route that has legal
\* promotion moves, the move applied promotes to the piece the character
\* names.
C14_SuffixSelectsVariant ==
    [][(/\ call'.op = "make_engine_move"
        /\ Len(call'.text) = 5
        /\ LetterPiece(call'.text[5]) # "None"
        /\ \E m \in RouteMoves(call'.text, cg.game.pos) : m.promo # "None")
       => /\ call'.ret
          /\ \E m \in RouteMoves(call'.text, cg.game.pos) :
                 /\ m.promo = LetterPiece(call'.text[5])
                 /\ cg'.game = MakeMove(cg.game, m)]_vars

C14_KnightPromotionApplied ==
    /\ call.op = "make_engine_move"
    /\ call.ret
    /\ Len(call.text) = 5
    /\ call.text[5] = Ascii.n
    /\ RankOf(TextDst(call.text)) = 0
    /\ At(cg.game.pos.board, TextDst(call.text)) = "n"

\* C15: with a fifth character present, make_engine_move returns false and
\* leaves the position as it was unless a legal move of the route has the
\* promotion piece that character names.
C15_FifthCharacterMustMatch ==
    [][(/\ call'.op = "make_engine_move"
        /\ Len(call'.text) >= 5
        /\ ~\E m \in RouteMoves(call'.text, cg.game.pos) :
               /\ m.promo # "None"
               /\ m.promo = LetterPiece(call'.text[5]))
       => ~call'.ret /\ cg'.game = cg.game]_vars

\* C16: a text of four characters on a route that has legal promotion moves
\* is accepted and applies one of them.
C16_PromotionWithoutSuffix ==
    [][(/\ call'.op = "make_engine_move"
        /\ Len(call'.text) = 4
        /\ \E m \in RouteMoves(call'.text, cg.game.pos) : m.promo # "None")
       => /\ call'.ret
          /\ \E m \in RouteMoves(call'.text, cg.game.pos) :
                 /\ m.promo # "None"
                 /\ cg'.game = MakeMove(cg.game, m)]_vars

C16_PromotedWithoutSuffix ==
    /\ call.op = "make_engine_move"
    /\ call.ret
    /\ Len(call.text) = 4
    /\ RankOf(TextDst(call.text)) = 7
    /\ At(cg.game.pos.board, TextDst(call.text)) = "Q"
    /\ At(cg.game.pos.board, Sq("d", 1)) = "Q"

(***************************************************************************)
(* Properties of the bridge's requests and protocol.                       *)
(***************************************************************************)
\* C11: get_move answers Ok only when the position line and the go line
\* were written to the input of the process the bridge holds.
C11_OkOnlyWhenWritten ==
    (bcall.op = "get_move" /\ bcall.ret = "Ok") =>
        /\ process # 0
        /\ Len(procs[process].written) >= 2
        /\ procs[process].written[Len(procs[process].written)] = GoLine
        /\ \E fen \in Fens :
               procs[process].written[Len(procs[process].written) - 1]
                   = PositionLine(fen)

(***************************************************************************)
(* The listener thread alone, over the lines an engine process may print.  *)
(***************************************************************************)
\* How many lines the process printed before it ended, at most.
MaxLines == 2

\* Lines of output: with or without a leading space, a first word that is
\* bestmove, starts with bestmove or is something else, and what follows.
LineLeads == {<<>>, <<Ascii.space>>}

LineFirsts == {BestmoveText,
               BestmoveText \o Text(<<"x">>),
               Text(<<"i", "n", "f", "o">>)}

LineRests ==
    {<<>>,
     <<Ascii.space>>,
     <<Ascii.space>> \o Text4("e", 2, "e", 4),
     <<Ascii.space, Ascii.space>> \o Text4("e", 7, "e", 5)
         \o <<Ascii.space>> \o Text(<<"o">>),
     <<Ascii.space>> \o BestmoveText \o <<Ascii.space>> \o Text4("d", 7, "d", 5),
     <<Ascii.nbsp>> \o Text4("e", 2, "e", 4),
     <<Ascii.space>> \o Text4("e", 2, "e", 4)
         \o <<Ascii.emspace>> \o Text4("d", 7, "d", 5)}

Lines == {lead \o first \o rest :
              lead \in LineLeads, first \in LineFirsts, rest \in LineRests}

Outputs == UNION {[1..n -> Lines] : n \in 1..MaxLines}

\* A bridge after start(), whose engine process printed some lines and ended;
\* the listener has read none of them yet.
InitListener ==
    /\ process = 1
    /\ procs \in {<<[Spawned EXCEPT !.written = Handshake,
                                    !.listener = "running",
                                    !.alive = FALSE,
                                    !.emitted = out]>> : out \in Outputs}
    /\ chan = <<>>
    /\ bridge = "live"
    /\ received = <<>>
    /\ bcall = [op |-> "start", ret |-> "Ok", value |-> <<>>]
    /\ cg = ChessGame_new
    /\ call = NoCall
    /\ overflow_checks = FALSE
    /\ halted = FALSE
    /\ app = App_new
    /\ loop = LoopStart

NextListener ==
    \/ ListenerReads
    \/ ListenerEnds

SpecListener == InitListener /\ [][NextListener]_vars

\* The notification of a line whose first token, at the start of the line,
\* is bestmove and which has a second token: that second token.
TokenNotification(line) ==
    LET parts == split_whitespace(line)
    IN IF Len(parts) >= 2 /\ parts[1] = BestmoveText /\ ~IsSpace(line[1])
       THEN <<parts[2]>>
       ELSE <<>>

\* C17: the listener sends one notification for each line that begins with
\* the token bestmove and has a second token, that second token, and nothing
\* for any other line.
C17_OnlyBestmoveTokenLines ==
    \A p \in 1..Len(procs) :
        LET pr == procs[p]
            sent[i \in 0..pr.nread] ==
                IF i = 0 THEN <<>>
                ELSE sent[i - 1] \o TokenNotification(pr.emitted[i])
        IN bridge = "live" /\ received = <<>> =>
               [k \in 1..Len(chan) |-> chan[k].text] = sent[pr.nread]

\* The first lines of the protocol, as the engine must see them.
ProtocolOpening ==
    <<"uci", "isready", "setoption name Skill Level value 10",
      "setoption name Threads value 4", "setoption name Hash value 128",
      "setoption name UCI_AnalyseMode value false",
      "setoption name UCI_LimitStrength value false">>

IsPositionLine(line) == \E fen \in Fens : line = "position fen " \o fen

\* The lines follow the protocol as far as they go: the opening first, then
\* pairs of a position line and the go line, then at most a quit that ends it.
FollowsProtocol(written) ==
    LET n == Len(written)
        o == Len(ProtocolOpening)
    IN /\ \A i \in 1..n : i <= o => written[i] = ProtocolOpening[i]
       /\ \A i \in 1..n : i > o =>
              \/ /\ IsPositionLine(written[i])
                 /\ i < n => written[i + 1] = "go movetime 2000"
                 /\ i = o + 1 \/ written[i - 1] = "go movetime 2000"
              \/ /\ written[i] = "go movetime 2000"
                 /\ i > o + 1
                 /\ IsPositionLine(written[i - 1])
              \/ /\ written[i] = "quit"
                 /\ i = n
                 /\ i = o + 1 \/ written[i - 1] = "go movetime 2000"

\* C18: what is written to an engine process is the handshake, once and
\* first, then pairs of a position line and go movetime 2000, with quit, if
\* written, last; a listener runs only for a process whose handshake was
\* written in full.
C18_ProtocolOrder ==
    \A p \in 1..Len(procs) :
        /\ FollowsProtocol(procs[p].written)
        /\ procs[p].listener # "none" =>
               Len(procs[p].written) >= Len(ProtocolOpening)

\* C18, its case: a process was sent the handshake, one request and quit.
C18_RequestThenQuit ==
    \E p \in 1..Len(procs) :
        /\ Len(procs[p].written) = Len(ProtocolOpening) + 3
        /\ procs[p].written[Len(procs[p].written)] = "quit"
        /\ procs[p].written[Len(procs[p].written) - 1] = "go movetime 2000"
        /\ procs[p].listener # "none"

(***************************************************************************)
(* Properties of the interaction loop.                                     *)
(***************************************************************************)
\* One step of the loop from its top: the channel is polled once, which
\* takes its oldest notification if it holds one, and the input comes next.
PollsOnce ==
    /\ loop'.at = "input"
    /\ \/ chan = <<>> /\ chan' = chan /\ app' = app
       \/ chan # <<>> /\ chan' = Tail(chan)
       \/ chan # <<>> /\ halted'

\* One step of the loop past the poll: an event is read, the channel is not
\* polled, and the game changes only by the square selected with the second
\* key; the iteration ends, or the second key is awaited.
ReadsInput ==
    /\ \/ loop.at = "input" /\ loop'.at \in {"draw", "rank", "returned"}
       \/ loop.at = "rank" /\ loop'.at = "draw"
    /\ bridge' = "live" => chan' = chan
    /\ app' # app => loop.at = "rank"

\* C19: every iteration of the loop starts with one poll of the channel,
\* whose notification is applied in that step, and only then reads input
\* events and selects squares.
C19_PollBeforeInput ==
    /\ loop.at = "draw"
    /\ [][loop' # loop =>
             IF loop.at = "draw" THEN PollsOnce ELSE ReadsInput]_vars
    /\ [][loop' = loop => app' = app /\ (bridge' = "live" => IsPrefix(chan, chan'))]_vars

\* C19, its case: the engine's move was applied by the poll, and the loop
\* has read a file key and awaits the rank.
C19_MoveAppliedThenInput ==
    /\ app.message # <<>>
    /\ app.message[1] = "EngineMoved"
    /\ loop.at = "rank"

(***************************************************************************)
(* Properties of the selection.                                            *)
(***************************************************************************)
\* C20: select_square with a square selected applies the cached move that
\* ends on the chosen square, clears selection and cache, sets the message
\* and returns true; else on a piece of the side to move it moves the
\* selection there and recomputes the cache; else it clears selection and
\* cache.  It returns true iff the position advanced by one move, and when
\* it returns false the position is unchanged.
C20_SelectWithSelection ==
    [][(call'.op = "select_square" /\ cg.selected_square # NoSquare) =>
          LET found == FindDest(cg.possible_moves, call'.square)
          IN /\ IF found # <<>>
                THEN /\ call'.ret
                     /\ cg'.game = MakeMove(cg.game, found[1])
                     /\ cg'.selected_square = NoSquare
                     /\ cg'.possible_moves = <<>>
                     /\ cg'.message = <<"Move", MoveText(found[1])>>
                ELSE IF OwnPiece(cg.game, call'.square)
                THEN /\ cg'.selected_square = call'.square
                     /\ cg'.possible_moves = CacheOf(cg')
                ELSE /\ cg'.selected_square = NoSquare
                     /\ cg'.possible_moves = <<>>
             /\ call'.ret <=> cg'.game.ply = cg.game.ply + 1
             /\ ~call'.ret => cg'.game = cg.game]_vars

\* The square holds a piece whose letter is of the case of the side to move:
\* capitals are White's.
MoversPiece(pos, square) ==
    IF pos.stm = "White"
    THEN pos.board[square + 1] \in {"P", "N", "B", "R", "Q", "K"}
    ELSE pos.board[square + 1] \in {"p", "n", "b", "r", "q", "k"}

\* C21: select_square with no square selected selects the square, and
\* computes the cache for it, only if it holds a piece of the side to move,
\* and changes nothing otherwise; position, message and thinking flag are
\* unchanged and false is returned in both cases.
C21_SelectWithoutSelection ==
    [][(call'.op = "select_square" /\ cg.selected_square = NoSquare) =>
          /\ ~call'.ret
          /\ cg'.game = cg.game
          /\ cg'.message = cg.message
          /\ cg'.thinking = cg.thinking
          /\ IF MoversPiece(cg.game.pos, call'.square)
             THEN /\ cg'.selected_square = call'.square
                  /\ cg'.possible_moves = CacheOf(cg')
             ELSE cg' = cg]_vars

\* C21, its case: Black to move, nothing selected before (the last move
\* cleared the selection), and the call selected Black's pawn on e7.
C21_BlackPawnSelected ==
    /\ call.op = "select_square"
    /\ call.square = Sq("e", 7)
    /\ cg.game.pos.stm = "Black"
    /\ cg.game.ply = 1
    /\ cg.message[1] = "Move"
    /\ cg.selected_square = Sq("e", 7)
    /\ Len(cg.possible_moves) = 2

(***************************************************************************)
(* Properties of the thinking flag.                                        *)
(***************************************************************************)
\* C22: make_engine_move with the notation of a legal move of the position
\* applies that move, which passes the turn, clears the thinking flag, sets
\* the engine-moved message and returns true; a call that does not return
\* true leaves the thinking flag as it was.
C22_EngineMoveApplied ==
    [][call'.op = "make_engine_move" =>
          /\ \A src \in Squares :
                 (Len(call'.text) >= 4 /\ SubSeq(call'.text, 1, 2) = SquareText(src)) =>
                     \A m \in Range(MovesFrom(cg.game.pos, src)) :
                         call'.text = MoveText(m) =>
                             /\ call'.ret /\ ~call'.panic
                             /\ cg'.game = MakeMove(cg.game, m)
                             /\ cg'.game.pos.stm # cg.game.pos.stm
                             /\ ~cg'.thinking
                             /\ cg'.message = <<"EngineMoved", call'.text>>
          /\ ~call'.ret => cg'.thinking = cg.thinking
          /\ (cg.thinking /\ ~cg'.thinking) =>
                 cg'.game.ply = cg.game.ply + 1]_vars

\* C22, its case: e7e5 was applied after 1.e4.
C22_ReplyToKingsPawn ==
    /\ call.op = "make_engine_move"
    /\ call.text = Text4("e", 7, "e", 5)
    /\ call.ret
    /\ cg.game.ply = 2
    /\ cg.game.pos.board[Sq("e", 4) + 1] = "P"
    /\ cg.game.pos.board[Sq("e", 5) + 1] = "p"
    /\ cg.game.pos.stm = "White"
    /\ ~cg.thinking
    /\ cg.message = <<"EngineMoved", Text4("e", 7, "e", 5)>>

\* C23: set_thinking(true) sets the flag and the engine-is-thinking message;
\* set_thinking(false) clears the flag and leaves the message; neither
\* changes position, selection or cache.
C23_SetThinkingFrame ==
    [][call'.op = "set_thinking" =>
          /\ cg'.thinking = call'.ret
          /\ cg'.message = IF call'.ret THEN <<"EngineThinking">> ELSE cg.message
          /\ cg'.game = cg.game
          /\ cg'.selected_square = cg.selected_square
          /\ cg'.possible_moves = cg.possible_moves]_vars

\* C23, its case: the flag was cleared after an engine move and the
\* engine-moved message is still there.
C23_ClearedKeepsMessage ==
    /\ call.op = "set_thinking"
    /\ ~call.ret
    /\ ~cg.thinking
    /\ cg.message[1] = "EngineMoved"

(***************************************************************************)
(* Properties of the orchestrated game.                                    *)
(***************************************************************************)
\* C24: in the interaction loop a move of White, the player's colour, is
\* made only by select_square and a move of Black, the engine's colour, only
\* by a polled notification.
C24_SideSeparation ==
    [][app'.game # app.game =>
          IF app.game.pos.stm = "White" THEN loop.at = "rank"
          ELSE loop.at = "draw"]_vars

(***************************************************************************)
(* The loop with an engine that answers every request once, with a move    *)
(* that is legal in the position sent, under fair scheduling.              *)
(***************************************************************************)
\* The positions the App can ask about: after a first move of White.
AskedPositions ==
    {Apply(StartPosition, m) : m \in Range(LegalMoves(StartPosition))}

\* The squares the engine's answers move from.
ReplySources == {Sq("e", 7), Sq("d", 7)}

\* The engine's book: for the position line of a request, a line with
\* bestmove and a legal move of that position.
Replies ==
    UNION {{[asked |-> PositionLine(Fen(pos)),
             line |-> BestmoveText \o <<Ascii.space>> \o MoveText(m)] :
                m \in {x \in Range(LegalMoves(pos)) : x.src \in ReplySources}} :
           pos \in AskedPositions}

\* The answers still owed: requests written, less the answers the listener
\* has passed on and the loop has polled.
Owed(ps, ch) ==
    LET f[p \in 0..Len(ps)] ==
            IF p = 0 THEN 0 ELSE f[p - 1] + Requests(ps[p]) - ps[p].nread
    IN f[Len(ps)] + Len(ch)

\* The engine answers the oldest request it has not answered: bestmove and
\* a legal move of the position of that request.
EngineAnswers ==
    \E p \in 1..Len(procs), reply \in Replies :
        /\ procs[p].alive
        /\ Len(procs[p].emitted) < Requests(procs[p])
        /\ reply.asked = procs[p].written[Len(Handshake)
                                           + 2 * Len(procs[p].emitted) + 1]
        /\ procs' = [procs EXCEPT ![p].emitted = Append(@, reply.line)]
        /\ UNCHANGED <<process, chan, bridge, received, bcall>>
        /\ UNCHANGED <<gameVars, appVars>>

\* The second key, as long as the moves owed by the engine fit the game's
\* length; the engine process does not exit.
ThinkRankKey ==
    /\ AppRankKey
    /\ app'.game.ply + Owed(procs', chan') <= MaxPly
    /\ \A p \in 1..Len(procs) : procs'[p].alive = procs[p].alive

InitThink ==
    /\ app = App_new
    /\ loop = LoopStart
    /\ process = 1
    /\ procs = <<[Spawned EXCEPT !.written = Handshake, !.listener = "running"]>>
    /\ chan = <<>>
    /\ bridge = "live"
    /\ received = <<>>
    /\ bcall = [op |-> "start", ret |-> "Ok", value |-> <<>>]
    /\ cg = ChessGame_new
    /\ call = NoCall
    /\ overflow_checks = FALSE
    /\ halted = FALSE

NextThink ==
    \/ AppPoll
    \/ AppNoEvent
    \/ AppKey
    \/ ThinkRankKey
    \/ EngineAnswers
    \/ ListenerReads

\* The loop thread runs on from its top: the draw and the poll of the
\* channel return, and the loop is at the input.
LoopLeavesTop ==
    /\ ~halted
    /\ loop.at = "draw"
    /\ loop' = [loop EXCEPT !.at = "input"]

\* The loop goes on from its top and from event::poll, which returns within
\* the tick; the listener and the engine run.  The second event::read()
\* waits for the user.
SpecThink ==
    /\ InitThink
    /\ [][NextThink]_vars
    /\ WF_loop(LoopLeavesTop)
    /\ WF_vars(AppNoEvent \/ AppKey)
    /\ WF_vars(ListenerReads)
    /\ WF_vars(EngineAnswers)

\* C25: with an engine that answers every request, a thinking flag that is
\* set is cleared later, unless the loop has returned.
C25_ThinkingCleared ==
    app.thinking ~> (~app.thinking \/ loop.at = "returned")

(***************************************************************************)
(* The library's ChessGame and the binary's App, fed the same selections   *)
(* and the same notifications.  The App has no engine process.             *)
(***************************************************************************)
InitPair ==
    /\ cg = ChessGame_new
    /\ app = App_new
    /\ call = NoCall
    /\ overflow_checks \in BOOLEAN
    /\ halted = FALSE
    /\ BridgeNew
    /\ loop = LoopStart

\* The same square goes to ChessGame::select_square and App::select_square.
PairSelect ==
    \E square \in InputSquares :
        LET r == select_square(cg, square)
            q == App_select_square(app, square, Held, FALSE)
        IN /\ ~halted
           /\ r.g.game.ply <= MaxPly
           /\ q.a.game.ply <= MaxPly
           /\ cg' = r.g
           /\ app' = q.a
           /\ call' = [NoCall EXCEPT !.op = "select_square",
                                     !.square = square, !.ret = r.ret]
           /\ UNCHANGED <<overflow_checks, halted, loop>>
           /\ UNCHANGED bridgeVars

\* The same notification goes to ChessGame::make_engine_move and to the
\* block of run_app that applies a polled move.
PairNotify ==
    \E text \in Notations :
        LET r == make_engine_move(cg, text, overflow_checks)
            q == App_receive(app, text, overflow_checks)
        IN /\ ~halted
           /\ r.g.game.ply <= MaxPly
           /\ q.a.game.ply <= MaxPly
           /\ cg' = r.g
           /\ app' = q.a
           /\ call' = [NoCall EXCEPT !.op = "make_engine_move", !.text = text,
                                     !.ret = r.ret, !.panic = r.panic]
           /\ halted' = (r.panic \/ q.panic)
           /\ UNCHANGED <<overflow_checks, loop>>
           /\ UNCHANGED bridgeVars

NextPair == PairSelect \/ PairNotify

SpecPair == InitPair /\ [][NextPair]_vars

\* C26: fed the same selections and notifications, the App and the
\* ChessGame have the same position, selected square and cache after every
\* step.
C26_SameGame ==
    /\ app.game = cg.game
    /\ app.selected_square = cg.selected_square
    /\ app.possible_moves = cg.possible_moves

=============================================================================
